---- MODULE Spec2Model ----
(***************************************************************************)
(* The JavaScript-interface bridge of react-native-webview (iOS host):     *)
(* the JavaScriptInterfaceManager (registry, dispatcher, bootstrap         *)
(* generator), the script the generator emits (stubs, pending-call table,  *)
(* response handler) and the host wiring of WebView.ios.tsx               *)
(* (enhancedOnMessage, enhancedOnLoadingFinish, the manager effect).       *)
(***************************************************************************)
EXTENDS Integers, Sequences, FiniteSets, TLC

(***************************************************************************)
(* Bounds of the exploration.                                              *)
(***************************************************************************)
\* stub calls issued by page code over one run
MaxCalls == 2
\* host events over one run: prop changes, configure, navigation, unmount
MaxEvents == 1
\* load-finish events that arrive once more for the page in place, over one run
MaxReloads == 1
\* texts page code posts on its own over one run
MaxPosts == 1
\* largest value of the page clock Date.now() (it starts at 0)
MaxNow == 1

\* values of Math.random().toString(36).substr(2, 9) the page can draw
RandomParts == {"a", "b"}

(***************************************************************************)
(* Values crossing the bridge.                                             *)
(***************************************************************************)
\* results a handler can return: a string, nothing (undefined), and a value
\* JSON.stringify cannot encode (a circular structure, a BigInt)
ResultValues == {"abc", "undefined", "circular"}

\* values a handler can throw or reject with.  isError: instanceof Error;
\* message: its .message; str: what String(value) yields; strThrows: String(value)
\* itself throws (an object without a usable toString, e.g. Object.create(null))
FailureValues ==
  { [isError |-> TRUE,  message |-> "boom", str |-> "Error: boom", strThrows |-> FALSE],
    [isError |-> TRUE,  message |-> "",     str |-> "Error",       strThrows |-> FALSE],
    [isError |-> FALSE, message |-> "m",    str |-> "[object Object]", strThrows |-> FALSE],
    [isError |-> FALSE, message |-> "",     str |-> "",            strThrows |-> TRUE] }

\* ... and the values that are not objects: the string 'oops', the number 42,
\* null, undefined.  They have no .message
PrimitiveFailureValues ==
  { [isError |-> FALSE, message |-> "", str |-> "oops",      strThrows |-> FALSE],
    [isError |-> FALSE, message |-> "", str |-> "42",        strThrows |-> FALSE],
    [isError |-> FALSE, message |-> "", str |-> "null",      strThrows |-> FALSE],
    [isError |-> FALSE, message |-> "", str |-> "undefined", strThrows |-> FALSE] }

\* the TypeError `handler(...args)` raises when args is missing or not iterable
SpreadTypeError ==
  [isError |-> TRUE, message |-> "args is not iterable", str |-> "TypeError: args is not iterable",
   strThrows |-> FALSE]

\* what a handler invocation ends with
Outcomes ==
  { [ok |-> TRUE,  value |-> v, failure |-> SpreadTypeError] : v \in ResultValues } \cup
  { [ok |-> FALSE, value |-> "", failure |-> f] : f \in FailureValues }

\* ... failures that are not objects included
AllOutcomes ==
  Outcomes \cup { [ok |-> FALSE, value |-> "", failure |-> f] : f \in PrimitiveFailureValues }

NoOutcome == [ok |-> FALSE, value |-> "none", failure |-> SpreadTypeError]

\* JSON.stringify(value) throws
JSONStringifyThrows(v) == v = "circular"

(***************************************************************************)
(* Handlers and configurations the host application supplies.              *)
(***************************************************************************)
\* hSync returns or throws inside the call; hAsync returns a promise that
\* settles in a later turn of the host's event loop
Handlers == {"hSync", "hAsync"}
IsAsync(h) == h = "hAsync"

Method(n, h) == [name |-> n, handler |-> h]
Interface(n, ms) == [name |-> n, methods |-> ms]

\* JavaScriptInterfaceConfig values: interfaces is the ordered list, hasDebug
\* says whether enableDebugLogging is given at all
ConfigFull ==
  [interfaces |-> << Interface("Android", << Method("getToken", "hSync"),
                                             Method("fetchData", "hAsync") >>) >>,
   hasDebug |-> FALSE, enableDebugLogging |-> FALSE]
ConfigDup ==
  [interfaces |-> << Interface("Android", << Method("fetchData", "hAsync") >>),
                     Interface("NativeAPI", << Method("getToken", "hAsync"),
                                               Method("getToken", "hSync") >>),
                     Interface("Android", << Method("getToken", "hAsync") >>) >>,
   hasDebug |-> TRUE, enableDebugLogging |-> TRUE]
ConfigEmpty ==
  [interfaces |-> << >>, hasDebug |-> TRUE, enableDebugLogging |-> FALSE]
Configs == {ConfigFull, ConfigDup, ConfigEmpty}

\* names are plain strings: nothing makes them JavaScript identifiers
ConfigOdd ==
  [interfaces |-> << Interface("Android", << Method("getToken", "hSync") >>),
                     Interface("my-api", << Method("getToken", "hSync") >>) >>,
   hasDebug |-> FALSE, enableDebugLogging |-> FALSE]
ConfigsWide == Configs \cup {ConfigOdd}

\* ... and a name may hold an escape sequence that JavaScript source text
\* decodes: the text \u0041ndroid denotes the name Android
ConfigEscaped ==
  [interfaces |-> << Interface("\\u0041ndroid", << Method("getToken", "hSync") >>) >>,
   hasDebug |-> FALSE, enableDebugLogging |-> FALSE]
ConfigsAll == ConfigsWide \cup {ConfigEscaped}

InterfaceNames == {"Android", "NativeAPI", "constructor"}
MethodNames == {"getToken", "fetchData", "missing"}

\* names that are not identifiers: `window.my-api = {` does not parse
NonIdentifierNames == {"my-api"}
IsIdentifier(name) == name \notin NonIdentifierNames

\* names holding an escape sequence
EscapedNames == {"\\u0041ndroid"}
\* the name the page reads where a registry name was pasted into the script
\* text, as a property name (window.${interfaceName}, ${methodName}: function)
\* and inside quotes (interfaceName: '${interfaceName}'): escape sequences
\* are decoded in both places
JSName(text) == IF text = "\\u0041ndroid" THEN "Android" ELSE text

\* own properties every plain JavaScript object inherits from Object.prototype
ObjectPrototypeKeys == {"constructor", "toString", "__proto__"}

(***************************************************************************)
(* JavaScriptInterfaceManager: registry.                                   *)
(***************************************************************************)
\* new Map()
EmptyMap == [k \in {} |-> "hSync"]
EmptyRegistry == [k \in {} |-> EmptyMap]

\* (variant) a set that leaves a key already there alone: the first wins
MapSetKeepFirst(map, key, value) ==
  [k \in DOMAIN map \cup {key} |-> IF k \in DOMAIN map THEN map[k] ELSE value]

\* Map.prototype.set
MapSet(map, key, value) ==
  [k \in DOMAIN map \cup {key} |-> IF k = key THEN value ELSE map[k]]

\* the inner loop of configure: methodMap.set(method.name, method.handler)
RECURSIVE BuildMethodMap(_, _)
BuildMethodMap(methods, map) ==
  IF methods = << >> THEN map
  ELSE BuildMethodMap(Tail(methods), MapSet(map, Head(methods).name, Head(methods).handler))

\* the outer loop of configure: this.interfaces.set(interfaceObj.name, methodMap)
RECURSIVE BuildInterfaces(_, _)
BuildInterfaces(objs, reg) ==
  IF objs = << >> THEN reg
  ELSE BuildInterfaces(Tail(objs),
         MapSet(reg, Head(objs).name, BuildMethodMap(Head(objs).methods, EmptyMap)))

\* (variant) configure without this.interfaces.clear(): the new entries are
\* added to what is there
configureMerge(reg, config) ==
  [interfaces |-> BuildInterfaces(config.interfaces, reg),
   enableDebugLogging |-> IF config.hasDebug THEN config.enableDebugLogging ELSE FALSE]

\* configure(config) on a manager whose registry is `reg`: clear, then rebuild
configure(reg, config) ==
  [interfaces |-> BuildInterfaces(config.interfaces, EmptyRegistry),
   enableDebugLogging |-> IF config.hasDebug THEN config.enableDebugLogging ELSE FALSE]

getInterfaceNames(reg) == DOMAIN reg
hasInterface(reg, name) == name \in DOMAIN reg

\* (variant) the method is looked for on every interface
hasMethodAnyInterface(reg, interfaceName, methodName) ==
  \E n \in DOMAIN reg : methodName \in DOMAIN reg[n]

hasMethod(reg, interfaceName, methodName) ==
  IF interfaceName \in DOMAIN reg THEN methodName \in DOMAIN reg[interfaceName] ELSE FALSE

\* (variant) without the early return for an empty registry: the bootstrap
\* text is returned whatever the registry holds
generateInjectionScriptAlways(reg) ==
  [scriptEmpty |-> FALSE,
   origin |-> reg,
   defs |-> [n \in DOMAIN reg |-> DOMAIN reg[n]],
   parses |-> \A n \in DOMAIN reg : IsIdentifier(n) /\ \A m \in DOMAIN reg[n] : IsIdentifier(m)]

\* generateInjectionScript(): "" for an empty registry (scriptEmpty), otherwise a
\* script that defines window.<name> = {<methods>} for every interface; defs is
\* the stub table the script carries.  The names are pasted into the text as
\* they are (window.${interfaceName}, ${methodName}: function): the text
\* parses only when every name is an identifier.  origin: the registry the
\* script was generated from
generateInjectionScript(reg) ==
  [scriptEmpty |-> DOMAIN reg = {},
   origin |-> reg,
   defs |-> [n \in DOMAIN reg |-> DOMAIN reg[n]],
   parses |-> \A n \in DOMAIN reg : IsIdentifier(n) /\ \A m \in DOMAIN reg[n] : IsIdentifier(m)]

(***************************************************************************)
(* JavaScriptInterfaceManager: dispatcher (handleCall).                    *)
(***************************************************************************)
NewError(msg) ==
  [isError |-> TRUE, message |-> msg, str |-> "Error: " \o msg, strThrows |-> FALSE]

InterfaceNotFound(interfaceName) == "Interface '" \o interfaceName \o "' not found"

\* (variant) the two names interpolated in the wrong places
MethodNotFoundSwapped(methodName, interfaceName) ==
  "Method '" \o interfaceName \o "' not found on interface '" \o methodName \o "'"

MethodNotFound(methodName, interfaceName) ==
  "Method '" \o methodName \o "' not found on interface '" \o interfaceName \o "'"

\* Map.prototype.get(key) !== undefined
MapHas(map, key) == key \in DOMAIN map

\* (variant) the registry kept in a plain object instead of a Map: a name
\* inherited from Object.prototype is found, as an interface without methods
DispatchPlainObject(reg, call) ==
  IF ~ MapHas(reg, call.interfaceName) /\ call.interfaceName \notin ObjectPrototypeKeys
    THEN [invoke |-> FALSE, handler |-> "none",
          thrown |-> NewError(InterfaceNotFound(call.interfaceName))]
  ELSE IF ~ MapHas(reg, call.interfaceName)
          \/ ~ MapHas(reg[call.interfaceName], call.methodName)
    THEN [invoke |-> FALSE, handler |-> "none",
          thrown |-> NewError(MethodNotFound(call.methodName, call.interfaceName))]
  ELSE IF ~ call.argsIterable
    THEN [invoke |-> FALSE, handler |-> "none", thrown |-> SpreadTypeError]
  ELSE [invoke |-> TRUE, handler |-> reg[call.interfaceName][call.methodName],
        thrown |-> SpreadTypeError]

\* handleCall up to the handler invocation: the two lookups and the spread of
\* args.  invoke: the handler is called; thrown: what the try block threw instead
Dispatch(reg, call) ==
  IF ~ MapHas(reg, call.interfaceName)
    THEN [invoke |-> FALSE, handler |-> "none",
          thrown |-> NewError(InterfaceNotFound(call.interfaceName))]
  ELSE IF ~ MapHas(reg[call.interfaceName], call.methodName)
    THEN [invoke |-> FALSE, handler |-> "none",
          thrown |-> NewError(MethodNotFound(call.methodName, call.interfaceName))]
  ELSE IF ~ call.argsIterable
    THEN [invoke |-> FALSE, handler |-> "none", thrown |-> SpreadTypeError]
  ELSE [invoke |-> TRUE, handler |-> reg[call.interfaceName][call.methodName],
        thrown |-> SpreadTypeError]

\* the catch block: error instanceof Error ? error.message : String(error)
ErrorMessage(failure) == IF failure.isError THEN failure.message ELSE failure.str
\* ... and String(error) throwing out of the catch block
ErrorMessageThrows(failure) == ~ failure.isError /\ failure.strThrows

NoResponse ==
  [type |-> "none", callId |-> "", success |-> FALSE,
   hasResult |-> FALSE, result |-> "", hasError |-> FALSE, error |-> ""]

\* (variant) the success response built without the call's callId
SuccessResponseNoCallId(callId, result) ==
  [type |-> "JS_INTERFACE_RESPONSE", callId |-> "", success |-> TRUE,
   hasResult |-> TRUE, result |-> result, hasError |-> FALSE, error |-> ""]

\* the object handleCall returns on success
SuccessResponse(callId, result) ==
  [type |-> "JS_INTERFACE_RESPONSE", callId |-> callId, success |-> TRUE,
   hasResult |-> TRUE, result |-> result, hasError |-> FALSE, error |-> ""]

\* (variant) the catch block reads error.message whatever was thrown: a value
\* that is not an Error has none, and the field is left out
FailureResponseMessageOnly(callId, failure) ==
  [type |-> "JS_INTERFACE_RESPONSE", callId |-> callId, success |-> FALSE,
   hasResult |-> FALSE, result |-> "", hasError |-> failure.isError,
   error |-> IF failure.isError THEN failure.message ELSE ""]

\* the object handleCall returns from its catch block
FailureResponse(callId, failure) ==
  [type |-> "JS_INTERFACE_RESPONSE", callId |-> callId, success |-> FALSE,
   hasResult |-> FALSE, result |-> "", hasError |-> TRUE, error |-> ErrorMessage(failure)]

\* how handleCall ends once the try block has ended with `outcome`:
\* raised (its promise rejects) or returned (with response)
HandleCallResult(callId, outcome) ==
  IF outcome.ok
    THEN [raised |-> FALSE, response |-> SuccessResponse(callId, outcome.value)]
  ELSE IF ErrorMessageThrows(outcome.failure)
    THEN [raised |-> TRUE, response |-> NoResponse]
  ELSE [raised |-> FALSE, response |-> FailureResponse(callId, outcome.failure)]

(***************************************************************************)
(* The wire: JSON.stringify on one side, evaluation on the other.          *)
(***************************************************************************)
\* JSON.stringify(response) throws when the result cannot be encoded
ResponseStringifyThrows(response) ==
  response.hasResult /\ JSONStringifyThrows(response.result)

\* the object literal the page evaluates: JSON.stringify drops a key whose
\* value is undefined
ResponseOnWire(response) ==
  [response EXCEPT !.hasResult = response.hasResult /\ response.result # "undefined",
                   !.result = IF response.hasResult /\ response.result # "undefined"
                              THEN response.result ELSE ""]

\* response.result as the page reads it
ReadResult(response) == IF response.hasResult THEN response.result ELSE "undefined"

\* new Error(response.error || 'Unknown error').message
RejectionMessage(response) ==
  IF response.hasError /\ response.error # "" THEN response.error ELSE "Unknown error"

\* 'call_' + Date.now() + '_' + Math.random().toString(36).substr(2, 9)
MakeCallId(time, random) == "call_" \o ToString(time) \o "_" \o random

(***************************************************************************)
(* State.                                                                  *)
(***************************************************************************)
VARIABLES
  managerPresent,      \* jsInterfaceManager.current !== null
  interfaces,          \* manager.interfaces (meaningful while managerPresent)
  enableDebugLogging,  \* manager.enableDebugLogging
  queried,             \* what the application's last round of registry queries returned
  webViewRef,          \* webViewRef.current !== null: the native view is mounted
  tasks,               \* every enhancedOnMessage invocation so far, in arrival order
  toHost,              \* messages posted by the page, not yet delivered to the host
  toEnv,               \* scripts handed to Commands.injectJavaScript, not yet run
  events,              \* host/page events used so far
  reloads,             \* repeated load-finish events used so far
  loading,             \* a content load has started and not finished
  envGen,              \* number of the page's script environment (one per load)
  now,                 \* Date.now() in the page
  postAvailable,       \* window.ReactNativeWebView && its postMessage
  handlerDefined,      \* window.__handleJSInterfaceResponse is defined
  bootstraps,          \* how often the bootstrap has run in this page
  callbacks,           \* window.__jsInterfaceCallbacks: callId -> stub call
  stubs,               \* window.<interface> objects: name -> method names
  stubOrigin,          \* for each of them, the registry its script was generated from
  calls,               \* every stub call so far, with its promise
  settleLog,           \* every invocation of a promise's resolve or reject, in order
  scriptErrors         \* injected scripts that ended with an uncaught exception

hostVars == << managerPresent, interfaces, enableDebugLogging, queried, webViewRef >>
envVars == << envGen, now, postAvailable, handlerDefined, bootstraps, callbacks, stubs,
              stubOrigin, calls, settleLog, scriptErrors >>
vars == << managerPresent, interfaces, enableDebugLogging, queried, webViewRef,
           tasks, toHost, toEnv, events, reloads, loading, envGen, now, postAvailable,
           handlerDefined, bootstraps, callbacks, stubs, stubOrigin, calls, settleLog,
           scriptErrors >>

EmptyCallbacks == [k \in {} |-> 0]

\* no query made yet
NoQuery ==
  [made |-> FALSE, interfaceName |-> "", methodName |-> "", hasInterface |-> FALSE,
   hasMethod |-> FALSE, names |-> {}, scriptEmpty |-> TRUE]
EmptyStubs == [k \in {} |-> {}]
EmptyOrigins == [k \in {} |-> EmptyRegistry]

\* argument lists page code passes to a stub
ArgLists == { << "x" >> }

Pending == [state |-> "pending", value |-> ""]
Fulfilled(v) == [state |-> "fulfilled", value |-> v]
Rejected(m) == [state |-> "rejected", value |-> m]

\* the object a stub serializes and posts; src is the stub call it came from
CallMessage(interfaceName, methodName, args, callId, src) ==
  [parses |-> TRUE, isObject |-> TRUE, type |-> "JS_INTERFACE_CALL",
   interfaceName |-> interfaceName, methodName |-> methodName,
   argsIterable |-> TRUE, args |-> args, callId |-> callId, src |-> src]

\* texts page code can post on its own through window.ReactNativeWebView
PageMessages ==
  { \* not JSON
    [parses |-> FALSE, isObject |-> FALSE, type |-> "", interfaceName |-> "",
     methodName |-> "", argsIterable |-> FALSE, args |-> << >>, callId |-> "", src |-> 0],
    \* "null"
    [parses |-> TRUE, isObject |-> FALSE, type |-> "", interfaceName |-> "",
     methodName |-> "", argsIterable |-> FALSE, args |-> << >>, callId |-> "", src |-> 0],
    \* an application message {type: "hello"}
    [parses |-> TRUE, isObject |-> TRUE, type |-> "hello", interfaceName |-> "",
     methodName |-> "", argsIterable |-> FALSE, args |-> << >>, callId |-> "", src |-> 0],
    \* hand-written call envelopes
    CallMessage("constructor", "getToken", << >>, "constructor", 0),
    CallMessage("Android", "missing", << >>, "raw_1", 0),
    [CallMessage("Android", "getToken", << >>, "raw_2", 0) EXCEPT !.argsIterable = FALSE],
    CallMessage("Android", "fetchData", << >>, MakeCallId(0, "a"), 0),
    CallMessage("NativeAPI", "getToken", << >>, "raw_3", 0) }

Init ==
  /\ managerPresent \in BOOLEAN
  /\ \E config \in Configs :
       /\ interfaces = IF managerPresent THEN configure(EmptyRegistry, config).interfaces
                       ELSE EmptyRegistry
       /\ enableDebugLogging = IF managerPresent
                               THEN configure(EmptyRegistry, config).enableDebugLogging
                               ELSE FALSE
  /\ queried = NoQuery
  /\ webViewRef = TRUE
  /\ tasks = << >>
  /\ toHost = << >>
  /\ toEnv = << >>
  /\ events = 0
  /\ reloads = 0
  /\ loading = TRUE
  /\ envGen = 0
  /\ now = 0
  /\ postAvailable \in BOOLEAN
  /\ handlerDefined = FALSE
  /\ bootstraps = 0
  /\ callbacks = EmptyCallbacks
  /\ stubs = EmptyStubs
  /\ stubOrigin = EmptyOrigins
  /\ calls = << >>
  /\ settleLog = << >>
  /\ scriptErrors = 0

(***************************************************************************)
(* Host: the manager effect, configure, unmount.                           *)
(***************************************************************************)
\* the javaScriptInterfaces prop changes to `config`: the effect builds a new
\* manager from it
SetJavaScriptInterfaces(config) ==
  /\ webViewRef
  /\ events < MaxEvents
  /\ events' = events + 1
  /\ reloads' = reloads
  /\ managerPresent' = TRUE
  /\ interfaces' = configure(EmptyRegistry, config).interfaces
  /\ enableDebugLogging' = configure(EmptyRegistry, config).enableDebugLogging
  /\ UNCHANGED << queried, webViewRef, tasks, toHost, toEnv, loading >>
  /\ UNCHANGED envVars

\* the javaScriptInterfaces prop is removed: the effect drops the manager
ClearJavaScriptInterfaces ==
  /\ webViewRef
  /\ managerPresent
  /\ events < MaxEvents
  /\ events' = events + 1
  /\ reloads' = reloads
  /\ managerPresent' = FALSE
  /\ interfaces' = EmptyRegistry
  /\ enableDebugLogging' = FALSE
  /\ UNCHANGED << queried, webViewRef, tasks, toHost, toEnv, loading >>
  /\ UNCHANGED envVars

\* manager.configure(config) on the manager in place
Configure(config) ==
  /\ managerPresent
  /\ events < MaxEvents
  /\ events' = events + 1
  /\ reloads' = reloads
  /\ interfaces' = configure(interfaces, config).interfaces
  /\ enableDebugLogging' = configure(interfaces, config).enableDebugLogging
  /\ UNCHANGED << managerPresent, queried, webViewRef, tasks, toHost, toEnv, loading >>
  /\ UNCHANGED envVars

\* the application asks the manager about a name: hasInterface, hasMethod,
\* getInterfaceNames, generateInjectionScript
Query(interfaceName, methodName) ==
  /\ managerPresent
  /\ queried' = [made |-> TRUE, interfaceName |-> interfaceName, methodName |-> methodName,
                 hasInterface |-> hasInterface(interfaces, interfaceName),
                 hasMethod |-> hasMethod(interfaces, interfaceName, methodName),
                 names |-> getInterfaceNames(interfaces),
                 scriptEmpty |-> generateInjectionScript(interfaces).scriptEmpty]
  /\ UNCHANGED << managerPresent, interfaces, enableDebugLogging, webViewRef, tasks, toHost,
                  toEnv, events, reloads, loading >>
  /\ UNCHANGED envVars

\* the component unmounts: the ref is cleared and the native view, with the
\* page in it, is gone
Unmount ==
  /\ webViewRef
  /\ events < MaxEvents
  /\ events' = events + 1
  /\ reloads' = reloads
  /\ webViewRef' = FALSE
  /\ UNCHANGED << managerPresent, interfaces, enableDebugLogging, queried, tasks, toHost,
                  toEnv, loading >>
  /\ UNCHANGED envVars

(***************************************************************************)
(* Host: enhancedOnMessage.                                                *)
(***************************************************************************)
\* the snippet enhancedOnMessage injects; task is the invocation that injects it
ResponseScript(response, task) ==
  [kind |-> "response", defs |-> EmptyStubs, origin |-> EmptyRegistry, parses |-> TRUE,
   response |-> ResponseOnWire(response), task |-> task]
\* the script enhancedOnLoadingFinish injects
BootstrapScript(script) ==
  [kind |-> "bootstrap", defs |-> script.defs, origin |-> script.origin,
   parses |-> script.parses, response |-> NoResponse, task |-> 0]

\* (variant) handleCall calls the handler once more when it failed
InvocationsWithRetry(invoked, outcome) ==
  IF ~ invoked THEN 0 ELSE IF outcome.ok THEN 1 ELSE 2

\* how often handleCall calls the handler for one envelope: `await
\* handler(...args)` is reached at most once and stands in no loop
Invocations(invoked, outcome) == IF invoked THEN 1 ELSE 0

\* the message goes past the try block to the original handler (generic):
\* `if (onMessageProp) onMessageProp(event)`
GenericTask(msg) ==
  [msg |-> msg, dispatched |-> FALSE, handler |-> "none", invoked |-> FALSE,
   invocations |-> 0,
   outcome |-> NoOutcome, status |-> "done", raised |-> FALSE, response |-> NoResponse,
   sent |-> FALSE, generic |-> TRUE, current |-> FALSE]

\* handleCall is awaiting the handler's promise
SuspendedTask(msg, handler) ==
  [msg |-> msg, dispatched |-> TRUE, handler |-> handler, invoked |-> TRUE,
   invocations |-> 1,
   outcome |-> NoOutcome, status |-> "suspended", raised |-> FALSE, response |-> NoResponse,
   sent |-> FALSE, generic |-> FALSE, current |-> TRUE]

\* enhancedOnMessage from the point where handleCall's try block ended with
\* `outcome`: handleCall returns or raises, the response is injected when the
\* view is mounted, and whatever was thrown inside enhancedOnMessage's own try
\* (handleCall raising, JSON.stringify(response) throwing) falls through to the
\* original handler.  current: when handleCall ended, the manager in place
\* still held this handler under the call's names
FinishedTask(msg, handler, invoked, outcome) ==
  LET hc == HandleCallResult(msg.callId, outcome)
      stringifyThrows == ~ hc.raised /\ webViewRef /\ ResponseStringifyThrows(hc.response)
      fallsThrough == hc.raised \/ stringifyThrows
  IN  [msg |-> msg, dispatched |-> TRUE, handler |-> handler, invoked |-> invoked,
       invocations |-> Invocations(invoked, outcome),
       outcome |-> outcome, status |-> "done", raised |-> hc.raised,
       response |-> hc.response,
       sent |-> ~ hc.raised /\ webViewRef /\ ~ stringifyThrows,
       generic |-> fallsThrough,
       current |-> /\ invoked
                   /\ managerPresent
                   /\ hasMethod(interfaces, msg.interfaceName, msg.methodName)
                   /\ interfaces[msg.interfaceName][msg.methodName] = handler]

\* (variant) the response is injected only while a manager is in place
InjectResponseIfManager(task, i) ==
  IF task.sent /\ managerPresent
    THEN Append(toEnv, ResponseScript(task.response, i)) ELSE toEnv

\* (variant) the response is injected whether or not the view is there
InjectResponseAlways(task, i) == Append(toEnv, ResponseScript(task.response, i))

\* Commands.injectJavaScript(webViewRef.current, responseScript), when reached
InjectResponse(task, i) ==
  IF task.sent THEN Append(toEnv, ResponseScript(task.response, i)) ELSE toEnv

\* (variant) a host that takes one call at a time: while a handler is
\* suspended a call envelope is not taken as one
IsInterfaceCallWhenIdle(msg) ==
  /\ msg.parses /\ msg.isObject /\ msg.type = "JS_INTERFACE_CALL" /\ managerPresent
  /\ \A j \in DOMAIN tasks : tasks[j].status # "suspended"

\* data.type === 'JS_INTERFACE_CALL' && jsInterfaceManager.current, after
\* JSON.parse succeeded; reading data.type of null throws
IsInterfaceCall(msg) ==
  msg.parses /\ msg.isObject /\ msg.type = "JS_INTERFACE_CALL" /\ managerPresent

\* the native view delivers the next message: enhancedOnMessage runs up to its
\* first suspension that lasts beyond the current turn; outcomes: the ways a
\* synchronous handler can end
OnMessageWith(outcomes) ==
  /\ webViewRef
  /\ toHost # << >>
  /\ toHost' = Tail(toHost)
  /\ LET msg == Head(toHost)
         d == Dispatch(interfaces, msg)
     IN  IF ~ IsInterfaceCall(msg)
           THEN /\ tasks' = Append(tasks, GenericTask(msg))
                /\ toEnv' = toEnv
         ELSE IF ~ d.invoke
           THEN LET t == FinishedTask(msg, "none", FALSE,
                                      [ok |-> FALSE, value |-> "", failure |-> d.thrown])
                IN  /\ tasks' = Append(tasks, t)
                    /\ toEnv' = InjectResponse(t, Len(tasks) + 1)
         ELSE IF IsAsync(d.handler)
           THEN /\ tasks' = Append(tasks, SuspendedTask(msg, d.handler))
                /\ toEnv' = toEnv
         ELSE \E outcome \in outcomes :
                LET t == FinishedTask(msg, d.handler, TRUE, outcome)
                IN  /\ tasks' = Append(tasks, t)
                    /\ toEnv' = InjectResponse(t, Len(tasks) + 1)
  /\ UNCHANGED << events, reloads, loading >>
  /\ UNCHANGED hostVars
  /\ UNCHANGED envVars

OnMessage == OnMessageWith(Outcomes)

\* the promise an asynchronous handler returned settles with `outcome`:
\* handleCall and then enhancedOnMessage resume
HandlerSettles(i, outcome) ==
  /\ i \in DOMAIN tasks
  /\ tasks[i].status = "suspended"
  /\ LET t == FinishedTask(tasks[i].msg, tasks[i].handler, TRUE, outcome)
     IN  /\ tasks' = [tasks EXCEPT ![i] = t]
         /\ toEnv' = InjectResponse(t, i)
  /\ UNCHANGED << toHost, events, reloads, loading >>
  /\ UNCHANGED hostVars
  /\ UNCHANGED envVars

\* the native view reports a finished load: enhancedOnLoadingFinish.  Either
\* the load that replaced the page ends (replaced), or the event arrives once
\* more for the page already there
LoadingFinish(replaced) ==
  /\ webViewRef
  /\ replaced = loading
  /\ replaced \/ reloads < MaxReloads
  /\ reloads' = IF replaced THEN reloads ELSE reloads + 1
  /\ events' = events
  /\ loading' = FALSE
  /\ LET script == generateInjectionScript(interfaces)
     IN  toEnv' = IF managerPresent /\ webViewRef /\ ~ script.scriptEmpty
                  THEN Append(toEnv, BootstrapScript(script))
                  ELSE toEnv
  /\ UNCHANGED << tasks, toHost >>
  /\ UNCHANGED hostVars
  /\ UNCHANGED envVars

(***************************************************************************)
(* Page: the generated bootstrap, its stubs and its response handler.      *)
(***************************************************************************)
\* window.__jsInterfaceCallbacks[callId]: an own entry, a member inherited
\* from Object.prototype (truthy, without resolve or reject), or undefined
LookupCallback(table, callId) ==
  IF callId \in DOMAIN table THEN "entry"
  ELSE IF callId \in ObjectPrototypeKeys THEN "inherited"
  ELSE "undefined"

\* delete window.__jsInterfaceCallbacks[callId]
DeleteCallback(table, callId) == [k \in DOMAIN table \ {callId} |-> table[k]]

\* (variant) the bootstrap starts from an empty table each time it runs
InitCallbacksFresh(table) == EmptyCallbacks

\* window.__jsInterfaceCallbacks = window.__jsInterfaceCallbacks || {}
InitCallbacks(table) == table

\* resolve/reject of a promise: only a pending promise changes
Settle(deferred, settled) == IF deferred.state = "pending" THEN settled ELSE deferred

\* callback.resolve(response.result) or
\* callback.reject(new Error(response.error || 'Unknown error'))
Settlement(response) ==
  IF response.success THEN Fulfilled(ReadResult(response))
  ELSE Rejected(RejectionMessage(response))

\* (variant) responses matched to calls by arrival order: the oldest entry
CallbackKeyOldest(table, response) ==
  IF DOMAIN table = {} THEN response.callId
  ELSE CHOOSE k \in DOMAIN table : \A j \in DOMAIN table : table[k] <= table[j]

\* the key the response handler looks up and deletes: response.callId
CallbackKey(table, response) == response.callId

\* window.__handleJSInterfaceResponse(response)
HandleJSInterfaceResponse(response) ==
  LET key == CallbackKey(callbacks, response)
      found == LookupCallback(callbacks, key)
  IN  /\ callbacks' = IF found = "entry" THEN DeleteCallback(callbacks, key)
                      ELSE callbacks
      /\ calls' = IF found = "entry"
                  THEN [calls EXCEPT ![callbacks[key]].deferred =
                          Settle(@, Settlement(response))]
                  ELSE calls
      /\ settleLog' = IF found = "entry"
                      THEN Append(settleLog, [call |-> callbacks[key], by |-> "response",
                                              boot |-> bootstraps])
                      ELSE settleLog
      /\ scriptErrors' = IF found = "inherited" THEN scriptErrors + 1 ELSE scriptErrors

\* the globals the bootstrap's interface definitions assign
DefinedNames(defs) == {JSName(n) : n \in DOMAIN defs}

\* the bootstrap's interface definitions: window.<name> = {<method>: ...} for
\* each name, as the page reads the names
DefineInterfaces(globals, defs) ==
  [g \in DOMAIN globals \cup DefinedNames(defs) |->
     IF g \in DefinedNames(defs)
       THEN {JSName(m) : m \in defs[CHOOSE n \in DOMAIN defs : JSName(n) = g]}
     ELSE globals[g]]

\* ... and the registry each global was generated from
DefineOrigins(origins, script) ==
  [g \in DOMAIN origins \cup DefinedNames(script.defs) |->
     IF g \in DefinedNames(script.defs) THEN script.origin ELSE origins[g]]

\* the page runs the next injected script: the bootstrap, or a response
\* snippet `if (window.__handleJSInterfaceResponse) {...}`
ExecScript ==
  /\ webViewRef
  /\ toEnv # << >>
  /\ toEnv' = Tail(toEnv)
  /\ LET script == Head(toEnv)
     IN  IF script.kind = "bootstrap" /\ ~ script.parses
           THEN /\ scriptErrors' = scriptErrors + 1
                /\ UNCHANGED << handlerDefined, bootstraps, stubs, stubOrigin, callbacks,
                                calls, settleLog >>
         ELSE IF script.kind = "bootstrap"
           THEN /\ handlerDefined' = TRUE
                /\ bootstraps' = bootstraps + 1
                /\ callbacks' = InitCallbacks(callbacks)
                /\ stubs' = DefineInterfaces(stubs, script.defs)
                /\ stubOrigin' = DefineOrigins(stubOrigin, script)
                /\ UNCHANGED << calls, settleLog, scriptErrors >>
         ELSE IF handlerDefined
           THEN /\ HandleJSInterfaceResponse(script.response)
                /\ UNCHANGED << handlerDefined, bootstraps, stubs, stubOrigin >>
         ELSE UNCHANGED << handlerDefined, bootstraps, stubs, stubOrigin, callbacks, calls,
                           settleLog, scriptErrors >>
  /\ UNCHANGED << tasks, toHost, events, reloads, loading, envGen, now, postAvailable >>
  /\ UNCHANGED hostVars

\* (variant) the stub posts without testing for the primitive
PostMessageAlways(queue, available, message) == Append(queue, message)

\* if (window.ReactNativeWebView && window.ReactNativeWebView.postMessage)
\*   window.ReactNativeWebView.postMessage(JSON.stringify(message))
PostMessage(queue, available, message) ==
  IF available THEN Append(queue, message) ELSE queue

\* page code calls window.<interfaceName>.<methodName>(...args)
StubCall(interfaceName, methodName, args, random) ==
  /\ webViewRef
  /\ Len(calls) < MaxCalls
  /\ interfaceName \in DOMAIN stubs
  /\ methodName \in stubs[interfaceName]
  /\ LET callId == MakeCallId(now, random)
         n == Len(calls) + 1
         call == [gen |-> envGen, callId |-> callId, interfaceName |-> interfaceName,
                  methodName |-> methodName, args |-> args, posted |-> postAvailable,
                  boot |-> bootstraps, origin |-> stubOrigin[interfaceName],
                  deferred |-> IF postAvailable THEN Pending
                               ELSE Rejected("ReactNativeWebView not available")]
     IN  /\ callbacks' = MapSet(callbacks, callId, n)
         /\ calls' = Append(calls, call)
         /\ toHost' = PostMessage(toHost, postAvailable,
                                  CallMessage(interfaceName, methodName, args, callId, n))
         /\ settleLog' = IF postAvailable THEN settleLog
                         ELSE Append(settleLog, [call |-> n, by |-> "stub", boot |-> bootstraps])
  /\ UNCHANGED << tasks, toEnv, events, reloads, loading, envGen, now, postAvailable,
                  handlerDefined, bootstraps, stubs, stubOrigin, scriptErrors >>
  /\ UNCHANGED hostVars

\* texts posted so far by page code on its own (src = 0), delivered or not
PostsSoFar ==
  Cardinality({i \in DOMAIN toHost : toHost[i].src = 0}) +
  Cardinality({i \in DOMAIN tasks : tasks[i].msg.src = 0})

\* page code posts a text of its own
PagePostMessage(msg) ==
  /\ webViewRef
  /\ postAvailable
  /\ PostsSoFar < MaxPosts
  /\ toHost' = Append(toHost, msg)
  /\ UNCHANGED << tasks, toEnv, events, reloads, loading >>
  /\ UNCHANGED hostVars
  /\ UNCHANGED envVars

\* the view starts loading new content: a fresh script environment replaces
\* the page's
Navigate(available) ==
  /\ webViewRef
  /\ events < MaxEvents
  /\ events' = events + 1
  /\ reloads' = reloads
  /\ loading' = TRUE
  /\ envGen' = envGen + 1
  /\ postAvailable' = available
  /\ handlerDefined' = FALSE
  /\ bootstraps' = 0
  /\ callbacks' = EmptyCallbacks
  /\ stubs' = EmptyStubs
  /\ stubOrigin' = EmptyOrigins
  /\ UNCHANGED << tasks, toHost, toEnv, now, calls, settleLog, scriptErrors >>
  /\ UNCHANGED hostVars

\* the page clock advances
Tick ==
  /\ now < MaxNow
  /\ now' = now + 1
  /\ UNCHANGED << tasks, toHost, toEnv, events, reloads, loading, envGen, postAvailable,
                  handlerDefined, bootstraps, callbacks, stubs, stubOrigin, calls,
                  settleLog, scriptErrors >>
  /\ UNCHANGED hostVars

\* the steps every run has: message delivery, handler completion, script
\* execution, the end of a page load, stub calls
Bridge ==
  \/ OnMessage
  \/ \E i \in 1..(MaxCalls + MaxPosts), outcome \in Outcomes : HandlerSettles(i, outcome)
  \/ LoadingFinish(TRUE)
  \/ ExecScript
  \/ \E i \in InterfaceNames, m \in MethodNames, a \in ArgLists, r \in RandomParts :
       StubCall(i, m, a, r)

Next ==
  \/ Bridge
  \/ OnMessageWith(AllOutcomes)
  \/ \E i \in 1..(MaxCalls + MaxPosts), outcome \in AllOutcomes : HandlerSettles(i, outcome)
  \/ \E config \in ConfigsAll : SetJavaScriptInterfaces(config)
  \/ ClearJavaScriptInterfaces
  \/ \E config \in ConfigsAll : Configure(config)
  \/ \E i \in InterfaceNames, m \in MethodNames : Query(i, m)
  \/ Unmount
  \/ LoadingFinish(FALSE)
  \/ \E msg \in PageMessages : PagePostMessage(msg)
  \/ \E available \in BOOLEAN : Navigate(available)
  \/ Tick

\* every step of the host and of the page
Spec == Init /\ [][Next]_vars

\* runs in which the page only issues stub calls: one page, one registry
SpecCalls == Init /\ [][Bridge]_vars

\* runs in which page code also posts texts of its own: one page, one registry
Posting ==
  \/ Bridge
  \/ \E msg \in PageMessages : PagePostMessage(msg)

SpecPage == Init /\ [][Posting]_vars

\* runs in which page code posts texts of its own and the application
\* reconfigures: the host side alone
Dispatching ==
  \/ OnMessage
  \/ \E i \in 1..(MaxCalls + MaxPosts), outcome \in Outcomes : HandlerSettles(i, outcome)
  \/ \E msg \in PageMessages : PagePostMessage(msg)
  \/ \E config \in Configs : SetJavaScriptInterfaces(config)
  \/ ClearJavaScriptInterfaces
  \/ \E config \in Configs : Configure(config)

SpecDispatch == Init /\ [][Dispatching]_vars

\* runs in which the application reconfigures and pages load, with no calls:
\* what is generated, injected and defined
Loading ==
  \/ \E config \in ConfigsWide : SetJavaScriptInterfaces(config)
  \/ ClearJavaScriptInterfaces
  \/ \E config \in ConfigsWide : Configure(config)
  \/ LoadingFinish(TRUE)
  \/ LoadingFinish(FALSE)
  \/ ExecScript
  \/ \E available \in BOOLEAN : Navigate(available)

SpecLoading == Init /\ [][Loading]_vars

\* a handler's plain ways to end: it returns a string, or throws an Error
PlainOutcomes ==
  {o \in Outcomes : (o.ok /\ o.value = "abc") \/ (~ o.ok /\ o.failure.message = "boom")}

\* the page calls methods with asynchronous handlers, which end plainly
AsyncBridge ==
  \/ OnMessage
  \/ \E i \in 1..(MaxCalls + MaxPosts), outcome \in PlainOutcomes : HandlerSettles(i, outcome)
  \/ LoadingFinish(TRUE)
  \/ ExecScript
  \/ \E i \in InterfaceNames, m \in MethodNames, a \in ArgLists, r \in RandomParts :
       /\ hasMethod(interfaces, i, m)
       /\ IsAsync(interfaces[i][m])
       /\ StubCall(i, m, a, r)

\* ... while the load-finish event arrives again for the page in place, so
\* that the bootstrap runs again among the page's calls
Reinjecting ==
  \/ AsyncBridge
  \/ LoadingFinish(FALSE)

SpecReinject == Init /\ [][Reinjecting]_vars

\* ... while the application reconfigures
Reconfiguring ==
  \/ AsyncBridge
  \/ \E config \in Configs : SetJavaScriptInterfaces(config)
  \/ ClearJavaScriptInterfaces
  \/ \E config \in Configs : Configure(config)

SpecReconfigure == Init /\ [][Reconfiguring]_vars

\* ... while the component unmounts
Unmounting ==
  \/ AsyncBridge
  \/ Unmount

SpecUnmount == Init /\ [][Unmounting]_vars

\* runs in which the application questions the manager and reconfigures it
Querying ==
  \/ \E i \in InterfaceNames, m \in MethodNames : Query(i, m)
  \/ \E config \in Configs : SetJavaScriptInterfaces(config)
  \/ ClearJavaScriptInterfaces
  \/ \E config \in Configs : Configure(config)

SpecQuery == Init /\ [][Querying]_vars

\* runs in which the page issues stub calls while the application
\* reconfigures, names with escape sequences included
Staling ==
  \/ Bridge
  \/ \E config \in Configs \cup {ConfigEscaped} : SetJavaScriptInterfaces(config)
  \/ ClearJavaScriptInterfaces
  \/ \E config \in Configs \cup {ConfigEscaped} : Configure(config)

SpecStale == Init /\ [][Staling]_vars

\* runs in which page code posts texts of its own, the application
\* reconfigures and handlers fail with values of every kind: the host side
\* alone
Failing ==
  \/ OnMessageWith(AllOutcomes)
  \/ \E i \in 1..(MaxCalls + MaxPosts), outcome \in AllOutcomes : HandlerSettles(i, outcome)
  \/ \E msg \in PageMessages : PagePostMessage(msg)
  \/ \E config \in Configs : SetJavaScriptInterfaces(config)
  \/ ClearJavaScriptInterfaces
  \/ \E config \in Configs : Configure(config)

SpecFailures == Init /\ [][Failing]_vars

(***************************************************************************)
(* Vocabulary of the properties.                                           *)
(***************************************************************************)
\* the text is a call envelope as enhancedOnMessage recognizes one
IsCallEnvelope(msg) == msg.parses /\ msg.isObject /\ msg.type = "JS_INTERFACE_CALL"

\* the response snippet of invocation i was injected and the page has run it
Executed(i) == tasks[i].sent /\ \A k \in DOMAIN toEnv : toEnv[k].task # i

\* no other stub call and no text posted by page code carries call n's callId
UniqueCallId(n) ==
  /\ \A m \in DOMAIN calls : m # n => calls[m].callId # calls[n].callId
  /\ \A k \in DOMAIN toHost : toHost[k].src = 0 => toHost[k].callId # calls[n].callId
  /\ \A i \in DOMAIN tasks : tasks[i].msg.src = 0 => tasks[i].msg.callId # calls[n].callId

\* the pending-call table holds call n's continuations
EntryPresent(n) ==
  /\ calls[n].gen = envGen
  /\ calls[n].callId \in DOMAIN callbacks
  /\ callbacks[calls[n].callId] = n

\* this step is the page running a response snippet
ResponseStep ==
  /\ webViewRef
  /\ toEnv # << >>
  /\ Head(toEnv).kind = "response"
  /\ toEnv' = Tail(toEnv)

\* this step is enhancedOnMessage starting on the next delivered message
DeliveryStep == toHost # << >> /\ toHost' = Tail(toHost) /\ Len(tasks') = Len(tasks) + 1

\* how often resolve or reject of call n's promise was invoked
TimesSettled(n) == Cardinality({k \in DOMAIN settleLog : settleLog[k].call = n})

(***************************************************************************)
(* Properties.                                                             *)
(***************************************************************************)

\* C1: a stub call issued with the bootstrap in place and postMessage
\* available is fulfilled with exactly the value its handler returned.  As a
\* final result: once the response to call n's envelope has run in the page
\* the call was issued in, call n's promise is fulfilled with the value the
\* handler returned for it.
C1_FulfilledWithHandlerValue ==
  \A i \in DOMAIN tasks :
    LET n == tasks[i].msg.src
    IN  ( /\ n # 0
          /\ tasks[i].invoked
          /\ tasks[i].status = "done"
          /\ tasks[i].outcome.ok
          /\ Executed(i)
          /\ webViewRef
          /\ calls[n].gen = envGen )
        => calls[n].deferred = Fulfilled(tasks[i].outcome.value)

\* C2: every call envelope that reaches enhancedOnMessage gets exactly one
\* response envelope, whatever the registry (none included) and whatever the
\* handler does.  As a final result: once enhancedOnMessage is through with a
\* call envelope, handleCall has returned one response for it.
C2_OneResponsePerCall ==
  \A i \in DOMAIN tasks :
    (IsCallEnvelope(tasks[i].msg) /\ tasks[i].status = "done")
      => tasks[i].response.type = "JS_INTERFACE_RESPONSE"

\* C3: two stub calls in flight with distinct callIds are settled
\* independently.  (state) A posted call whose callId nothing else carries has
\* its resolve/reject invoked at most once, exactly once when its response has
\* run in its page, and is then settled as its own handler invocation ended.
C3_OwnOutcome ==
  \A n \in DOMAIN calls :
    (calls[n].posted /\ UniqueCallId(n)) =>
      /\ TimesSettled(n) <= 1
      /\ \A i \in DOMAIN tasks :
           (tasks[i].msg.src = n /\ Executed(i) /\ calls[n].gen = envGen /\ webViewRef)
             => TimesSettled(n) = 1
      /\ calls[n].deferred # Pending =>
           \E i \in DOMAIN tasks :
             /\ tasks[i].msg.src = n
             /\ Executed(i)
             /\ tasks[i].response.success = tasks[i].outcome.ok
             /\ calls[n].deferred.state =
                  (IF tasks[i].outcome.ok THEN "fulfilled" ELSE "rejected")
             /\ tasks[i].outcome.ok => calls[n].deferred.value = tasks[i].outcome.value
             /\ ~ tasks[i].outcome.ok =>
                  calls[n].deferred.value = RejectionMessage(tasks[i].response)

\* C3: (step) the page running a response leaves every call with another
\* callId alone: its promise, its table entry and its settle count.
C3_OthersUntouched ==
  \A b \in DOMAIN calls :
    (ResponseStep /\ Head(toEnv).response.callId # calls[b].callId) =>
      /\ calls'[b] = calls[b]
      /\ EntryPresent(b) => EntryPresent(b)'
      /\ TimesSettled(b)' = TimesSettled(b)

C3_IndependentSettlement == []C3_OwnOutcome /\ [][C3_OthersUntouched]_vars

\* C3 happens: of two calls with distinct callIds the later one was settled
\* first, one fulfilled and one rejected, each once.
C3_Witness ==
  /\ Len(calls) >= 2
  /\ calls[1].posted /\ calls[2].posted
  /\ UniqueCallId(1) /\ UniqueCallId(2)
  /\ Len(settleLog) = 2
  /\ settleLog[1].call = 2 /\ settleLog[2].call = 1
  /\ calls[1].deferred.state = "fulfilled"
  /\ calls[2].deferred.state = "rejected"

\* C4: handleCall on an envelope whose interfaceName is not registered returns
\* success=false with error "Interface '<interfaceName>' not found" and invokes
\* no handler, for every name, those of Object.prototype members included.
C4_UnknownInterfaceStep ==
  ( /\ DeliveryStep
    /\ webViewRef
    /\ managerPresent
    /\ IsCallEnvelope(Head(toHost))
    /\ Head(toHost).interfaceName \notin DOMAIN interfaces )
  => LET t == tasks'[Len(tasks')]
     IN  /\ t.dispatched
         /\ t.status = "done"
         /\ ~ t.raised
         /\ ~ t.invoked
         /\ t.handler = "none"
         /\ t.response.type = "JS_INTERFACE_RESPONSE"
         /\ t.response.callId = Head(toHost).callId
         /\ t.response.success = FALSE
         /\ t.response.hasError
         /\ t.response.error = "Interface '" \o Head(toHost).interfaceName \o "' not found"

C4_UnknownInterface == [][C4_UnknownInterfaceStep]_vars

\* C4 happens: a call to the interface name "constructor" was answered
C4_Witness ==
  \E i \in DOMAIN tasks :
    /\ tasks[i].dispatched
    /\ tasks[i].msg.interfaceName = "constructor"
    /\ tasks[i].response.error = "Interface 'constructor' not found"

\* C5: handleCall on an envelope whose interfaceName is registered and whose
\* methodName is not registered on it returns success=false with error
\* "Method '<methodName>' not found on interface '<interfaceName>'" and
\* invokes no handler.
C5_UnknownMethodStep ==
  ( /\ DeliveryStep
    /\ webViewRef
    /\ managerPresent
    /\ IsCallEnvelope(Head(toHost))
    /\ Head(toHost).interfaceName \in DOMAIN interfaces
    /\ Head(toHost).methodName \notin DOMAIN interfaces[Head(toHost).interfaceName] )
  => LET t == tasks'[Len(tasks')]
     IN  /\ t.dispatched
         /\ t.status = "done"
         /\ ~ t.raised
         /\ ~ t.invoked
         /\ t.handler = "none"
         /\ t.response.type = "JS_INTERFACE_RESPONSE"
         /\ t.response.success = FALSE
         /\ t.response.hasError
         /\ t.response.error =
              "Method '" \o Head(toHost).methodName \o "' not found on interface '"
                \o Head(toHost).interfaceName \o "'"

C5_UnknownMethod == [][C5_UnknownMethodStep]_vars

\* C5 happens: a call to Android.missing was answered
C5_Witness ==
  \E i \in DOMAIN tasks :
    /\ tasks[i].dispatched
    /\ tasks[i].response.error = "Method 'missing' not found on interface 'Android'"

\* C6: a handler failure reaches the caller as a rejection whose message is the
\* failure's message, the empty message included.  Stated for failures that
\* are Error objects and calls whose callId nothing else carries: once the
\* response has run in the call's page, the promise is rejected with the
\* Error's own message.
C6_RejectedWithFailureMessage ==
  \A i \in DOMAIN tasks :
    LET n == tasks[i].msg.src
    IN  ( /\ n # 0
          /\ tasks[i].invoked
          /\ tasks[i].status = "done"
          /\ ~ tasks[i].outcome.ok
          /\ tasks[i].outcome.failure.isError
          /\ Executed(i)
          /\ webViewRef
          /\ calls[n].gen = envGen
          /\ UniqueCallId(n) )
        => calls[n].deferred = Rejected(tasks[i].outcome.failure.message)

\* C7: handleCall never raises: whatever the envelope and whatever the
\* handler throws or rejects with, it returns a response envelope.
C7_HandleCallNeverRaises ==
  \A i \in DOMAIN tasks :
    (tasks[i].dispatched /\ tasks[i].status = "done")
      => (~ tasks[i].raised /\ tasks[i].response.type = "JS_INTERFACE_RESPONSE")

\* C8: a response whose callId matches no pending entry has no effect: the
\* table and every promise stay as they are and the snippet raises nothing.
C8_UnmatchedResponseStep ==
  (ResponseStep /\ Head(toEnv).response.callId \notin DOMAIN callbacks) =>
    /\ callbacks' = callbacks
    /\ calls' = calls
    /\ settleLog' = settleLog
    /\ scriptErrors' = scriptErrors

C8_UnmatchedResponseIgnored == [][C8_UnmatchedResponseStep]_vars

\* C9: the entry of a stub call is in the table from the call on, leaves it
\* only when a response with the same callId is processed or the page's
\* environment ends, and its promise is settled at most once.
C9_EntryStep ==
  /\ Len(calls') > Len(calls) =>
       LET n == Len(calls')
       IN  calls'[n].callId \in DOMAIN callbacks' /\ callbacks'[calls'[n].callId] = n
  /\ \A n \in DOMAIN calls :
       /\ (EntryPresent(n) /\ ~ EntryPresent(n)') =>
            \/ ResponseStep /\ Head(toEnv).response.callId = calls[n].callId
            \/ envGen' # envGen
       /\ calls[n].deferred # Pending => calls'[n].deferred = calls[n].deferred

C9_EntryLifetime == [][C9_EntryStep]_vars

\* C10: a stub called while postMessage is unavailable rejects with the
\* transport error and leaves no entry under its callId in the table.
C10_NoEntryWhenUnavailable ==
  \A n \in DOMAIN calls :
    (~ calls[n].posted /\ calls[n].gen = envGen) =>
      /\ calls[n].deferred = Rejected("ReactNativeWebView not available")
      /\ calls[n].callId \notin DOMAIN callbacks

\* this step is a stub call
StubCallStep == Len(calls') = Len(calls) + 1

\* C11: a stub called while postMessage is unavailable sends no call envelope,
\* and the host neither dispatches a handler nor produces a response for it.
\* (step) Such a call leaves the message queue, the host's invocations and the
\* injected scripts as they were.
C11_NothingSentStep ==
  (StubCallStep /\ ~ postAvailable) =>
    /\ toHost' = toHost
    /\ tasks' = tasks
    /\ toEnv' = toEnv

\* C11: (state) no message in flight and no invocation of enhancedOnMessage
\* stems from such a call.
C11_NothingDispatched ==
  \A n \in DOMAIN calls :
    ~ calls[n].posted =>
      /\ \A k \in DOMAIN toHost : toHost[k].src # n
      /\ \A i \in DOMAIN tasks : tasks[i].msg.src # n

C11_UnavailableSendsNothing == []C11_NothingDispatched /\ [][C11_NothingSentStep]_vars

\* C11 happens: two stubs were called without postMessage and both were
\* rejected, while the host has seen nothing
C11_Witness ==
  /\ Len(calls) = 2
  /\ \A n \in DOMAIN calls :
       ~ calls[n].posted /\ calls[n].deferred = Rejected("ReactNativeWebView not available")
  /\ toHost = << >>
  /\ tasks = << >>

\* the text has the whole call-envelope shape: an object with type
\* JS_INTERFACE_CALL, interfaceName, methodName, callId and a list of args
MatchesEnvelopeShape(msg) == IsCallEnvelope(msg) /\ msg.argsIterable

\* C12: a message that does not parse, or parses without the whole
\* call-envelope shape, goes to the generic message handler, is never handed
\* to the dispatcher and yields no response.
C12_MismatchGoesGeneric ==
  \A i \in DOMAIN tasks :
    ~ MatchesEnvelopeShape(tasks[i].msg) =>
      /\ tasks[i].generic
      /\ ~ tasks[i].dispatched
      /\ tasks[i].response.type = "none"

\* this step is the page running a bootstrap script
BootstrapStep ==
  /\ webViewRef
  /\ toEnv # << >>
  /\ Head(toEnv).kind = "bootstrap"
  /\ toEnv' = Tail(toEnv)

\* this step is enhancedOnLoadingFinish with a manager and a view in place
InjectionStep == (LoadingFinish(TRUE) \/ LoadingFinish(FALSE)) /\ managerPresent /\ webViewRef

\* C13: generateInjectionScript returns the empty string exactly when the
\* registry has no interfaces; otherwise running its result defines, for every
\* configured interface name, a global object with exactly the configured
\* method names.  (step) At a load finish nothing is injected exactly when
\* the registry is empty, the injected script carries the registry's names,
\* and a page that runs a bootstrap script then has every interface the
\* script carries, with exactly its methods.
C13_ScriptStep ==
  /\ InjectionStep =>
       /\ (toEnv' = toEnv) <=> (DOMAIN interfaces = {})
       /\ toEnv' # toEnv =>
            /\ Len(toEnv') = Len(toEnv) + 1
            /\ toEnv'[Len(toEnv')].kind = "bootstrap"
            /\ toEnv'[Len(toEnv')].defs = [n \in DOMAIN interfaces |-> DOMAIN interfaces[n]]
  /\ BootstrapStep =>
       \A n \in DOMAIN Head(toEnv).defs :
         n \in DOMAIN stubs' /\ stubs'[n] = Head(toEnv).defs[n]

C13_ScriptDefinesInterfaces == [][C13_ScriptStep]_vars

\* every interface and method name of the exploration
AllInterfaceNames == InterfaceNames \cup NonIdentifierNames
\* the configuration has an entry for interface n
Lists(config, n) == \E k \in DOMAIN config.interfaces : config.interfaces[k].name = n
\* the configuration's entry for n (the last one, should it have several)
EntryFor(config, n) ==
  config.interfaces[CHOOSE k \in DOMAIN config.interfaces :
                      /\ config.interfaces[k].name = n
                      /\ \A j \in DOMAIN config.interfaces :
                           j > k => config.interfaces[j].name # n]
\* the configuration's entry for n has a method m
EntryLists(config, n, m) ==
  /\ Lists(config, n)
  /\ \E j \in DOMAIN EntryFor(config, n).methods : EntryFor(config, n).methods[j].name = m

\* this step is configure(config): on the manager in place, or in the
\* constructor of a new one
ConfigureStep(config) == Configure(config) \/ SetJavaScriptInterfaces(config)

\* C14: configure(c) replaces the whole registry.  After it, hasInterface(n)
\* holds exactly for the names c lists, hasMethod(n, m) exactly for the
\* methods c's entry for n lists, whatever was installed before, and the debug
\* flag is c's flag, false when c gives none.
C14_ConfigureStep ==
  \A config \in ConfigsWide :
    ConfigureStep(config) =>
      /\ \A n \in AllInterfaceNames :
           /\ hasInterface(interfaces', n) <=> Lists(config, n)
           /\ \A m \in MethodNames :
                hasMethod(interfaces', n, m) <=> EntryLists(config, n, m)
      /\ enableDebugLogging' = (config.hasDebug /\ config.enableDebugLogging)

C14_ConfigureReplaces == [][C14_ConfigureStep]_vars

\* C14 happens: the page was bootstrapped from a registry with
\* Android.fetchData, and the registry now is the one of a configuration
\* with other entries and the debug flag set
C14_Witness ==
  /\ "Android" \in DOMAIN stubs
  /\ stubs["Android"] = {"getToken", "fetchData"}
  /\ managerPresent
  /\ DOMAIN interfaces = {"Android", "NativeAPI"}
  /\ DOMAIN interfaces["Android"] = {"getToken"}
  /\ enableDebugLogging

\* the handler of the last method named m in an entry of a configuration
LastHandler(entry, m) ==
  entry.methods[CHOOSE j \in DOMAIN entry.methods :
                  /\ entry.methods[j].name = m
                  /\ \A i \in DOMAIN entry.methods : i > j => entry.methods[i].name # m].handler

\* C15: when a configuration lists an interface name more than once the
\* registry holds the method set of the last occurrence only, and when an
\* interface lists a method name more than once the last handler is the one
\* registered.  (step) configure(c) leaves, for every name c lists, exactly
\* the methods of c's last entry for it, each with its last handler.
C15_LastOccurrenceStep ==
  \A config \in Configs :
    ConfigureStep(config) =>
      \A n \in InterfaceNames :
        Lists(config, n) =>
          /\ n \in DOMAIN interfaces'
          /\ DOMAIN interfaces'[n] =
               {EntryFor(config, n).methods[j].name : j \in DOMAIN EntryFor(config, n).methods}
          /\ \A m \in DOMAIN interfaces'[n] :
               interfaces'[n][m] = LastHandler(EntryFor(config, n), m)

\* C15: (step) the handler a call is dispatched to is the one the registry
\* holds for the call's names.
C15_DispatchStep ==
  ( /\ DeliveryStep
    /\ managerPresent
    /\ MatchesEnvelopeShape(Head(toHost))
    /\ hasMethod(interfaces, Head(toHost).interfaceName, Head(toHost).methodName) )
  => LET t == tasks'[Len(tasks')]
     IN  /\ t.invoked
         /\ t.handler = interfaces[Head(toHost).interfaceName][Head(toHost).methodName]

C15_LastOccurrenceWins == [][C15_LastOccurrenceStep /\ C15_DispatchStep]_vars

\* C15 happens: NativeAPI.getToken, listed with an asynchronous and then a
\* synchronous handler, was dispatched to the synchronous one, in a registry
\* whose Android has only the method of its last entry
C15_Witness ==
  /\ managerPresent
  /\ "Android" \in DOMAIN interfaces
  /\ DOMAIN interfaces["Android"] = {"getToken"}
  /\ \E i \in DOMAIN tasks :
       /\ tasks[i].msg.interfaceName = "NativeAPI"
       /\ tasks[i].msg.methodName = "getToken"
       /\ tasks[i].invoked
       /\ tasks[i].handler = "hSync"
       /\ tasks[i].current

\* C16: running the bootstrap again in a page that has pending entries leaves
\* every entry in the table.  (step) A bootstrap run changes neither the table
\* nor any call's promise.
C16_BootstrapStep ==
  BootstrapStep => (callbacks' = callbacks /\ calls' = calls /\ settleLog' = settleLog)

\* C16: (state) ... and a matching response arriving afterwards still settles
\* each of them: a posted call whose callId nothing else carries is settled
\* as its handler ended once its response has run in its page, however many
\* bootstrap runs lie between the call and the response.
C16_StillSettled ==
  \A i \in DOMAIN tasks :
    LET n == tasks[i].msg.src
    IN  (n # 0 /\ Executed(i) /\ calls[n].gen = envGen /\ UniqueCallId(n)) =>
          /\ calls[n].deferred = Settlement(ResponseOnWire(tasks[i].response))
          /\ ~ EntryPresent(n)

C16_ReinjectionKeepsEntries == []C16_StillSettled /\ [][C16_BootstrapStep]_vars

\* C16 happens: a call issued after the first bootstrap run was settled by
\* its response after the second
C16_Witness ==
  \E k \in DOMAIN settleLog :
    /\ settleLog[k].by = "response"
    /\ calls[settleLog[k].call].boot = 1
    /\ settleLog[k].boot = 2
    /\ calls[settleLog[k].call].deferred.state = "fulfilled"

\* this step is the completion of the suspended handler of invocation i
CompletionStep(i) ==
  /\ i \in DOMAIN tasks
  /\ tasks[i].status = "suspended"
  /\ tasks'[i].status = "done"

\* this step changes the registry or the manager
ReconfigurationStep ==
  \/ ClearJavaScriptInterfaces
  \/ \E config \in ConfigsWide : ConfigureStep(config)

\* C17: when the registry is reconfigured, or the manager replaced or removed,
\* while a call's handler is suspended, the call still completes with a
\* response derived from the handler looked up at dispatch, and the response
\* is still routed back.  (step) A reconfiguration leaves every invocation
\* and every injected script alone; the completion of a suspended handler,
\* whatever the manager and registry are by then, gives the response of that
\* handler's outcome under the call's callId and injects it into the view.
C17_CompletionStep ==
  /\ ReconfigurationStep => (tasks' = tasks /\ toEnv' = toEnv)
  /\ \A i \in 1..(MaxCalls + MaxPosts) :
       CompletionStep(i) =>
         LET t == tasks'[i]
         IN  /\ t.handler = tasks[i].handler
             /\ t.msg = tasks[i].msg
             /\ ~ t.raised
             /\ t.response.type = "JS_INTERFACE_RESPONSE"
             /\ t.response.callId = t.msg.callId
             /\ t.response.success = t.outcome.ok
             /\ t.outcome.ok => t.response.result = t.outcome.value
             /\ ~ t.outcome.ok => t.response.error = t.outcome.failure.message
             /\ webViewRef =>
                  /\ Len(toEnv') = Len(toEnv) + 1
                  /\ toEnv'[Len(toEnv')].kind = "response"
                  /\ toEnv'[Len(toEnv')].response.callId = t.msg.callId
                  /\ toEnv'[Len(toEnv')].response.success = t.outcome.ok

\* C17: (state) ... back to the caller: once that response has run in the
\* caller's page, a call whose callId nothing else carries is settled as the
\* handler ended, also when the handler was no longer registered by then.
C17_CallerSettled ==
  \A i \in DOMAIN tasks :
    LET n == tasks[i].msg.src
    IN  ( /\ n # 0
          /\ tasks[i].status = "done"
          /\ tasks[i].invoked
          /\ ~ tasks[i].current
          /\ Executed(i)
          /\ calls[n].gen = envGen
          /\ UniqueCallId(n) )
        => /\ tasks[i].outcome.ok => calls[n].deferred = Fulfilled(tasks[i].outcome.value)
           /\ ~ tasks[i].outcome.ok =>
                calls[n].deferred = Rejected(tasks[i].outcome.failure.message)

C17_InFlightSurvivesReconfiguration == []C17_CallerSettled /\ [][C17_CompletionStep]_vars

\* C17 happens: a handler completed when the manager no longer held it, and
\* the caller's promise was fulfilled with its value
C17_Witness ==
  \E i \in DOMAIN tasks :
    /\ tasks[i].msg.src # 0
    /\ tasks[i].status = "done"
    /\ tasks[i].invoked
    /\ ~ tasks[i].current
    /\ Executed(i)
    /\ calls[tasks[i].msg.src].deferred = Fulfilled("abc")

\* C18: after every load finish with a non-empty registry and the view in
\* place, the host injects the bootstrap generated from the registry as it is
\* then, once its own load-finish handling is done; with an empty registry or
\* no manager nothing is injected.
C18_LoadFinishStep ==
  (LoadingFinish(TRUE) \/ LoadingFinish(FALSE)) =>
    /\ ~ loading'
    /\ IF managerPresent /\ webViewRef /\ DOMAIN interfaces # {}
         THEN /\ Len(toEnv') = Len(toEnv) + 1
              /\ SubSeq(toEnv', 1, Len(toEnv)) = toEnv
              /\ toEnv'[Len(toEnv')].kind = "bootstrap"
              /\ DOMAIN toEnv'[Len(toEnv')].defs = DOMAIN interfaces
              /\ \A n \in DOMAIN interfaces :
                   toEnv'[Len(toEnv')].defs[n] = DOMAIN interfaces[n]
         ELSE toEnv' = toEnv

C18_BootstrapOnLoadFinish == [][C18_LoadFinishStep]_vars

\* C18 happens: after a navigation the second page finished loading and has
\* run the bootstrap injected for it
C18_Witness ==
  /\ envGen = 1
  /\ ~ loading
  /\ toEnv = << >>
  /\ bootstraps = 1
  /\ managerPresent
  /\ DOMAIN stubs = DOMAIN interfaces
  /\ DOMAIN stubs # {}

\* C19: when the view reference is gone as a handler completes, the response
\* is dropped without error or retry and the caller's entry is never settled
\* afterwards.  (step) Such a completion injects nothing, raises nothing and
\* does not fall back to the generic handler; and once the reference is gone
\* no step injects a script, touches the table or settles a promise.
C19_DroppedStep ==
  /\ \A i \in 1..(MaxCalls + MaxPosts) :
       (CompletionStep(i) /\ ~ webViewRef) =>
         /\ toEnv' = toEnv
         /\ ~ tasks'[i].sent
         /\ ~ tasks'[i].raised
         /\ ~ tasks'[i].generic
  /\ ~ webViewRef =>
       /\ ~ webViewRef'
       /\ toEnv' = toEnv
       /\ callbacks' = callbacks
       /\ calls' = calls
       /\ settleLog' = settleLog

C19_DroppedWithoutView == [][C19_DroppedStep]_vars

\* C19 happens: a handler returned a value after the unmount; its response was
\* not injected and the caller's promise is still pending, its entry in place
C19_Witness ==
  /\ ~ webViewRef
  /\ \E i \in DOMAIN tasks :
       /\ tasks[i].msg.src # 0
       /\ tasks[i].status = "done"
       /\ tasks[i].invoked
       /\ tasks[i].outcome.ok
       /\ ~ tasks[i].sent
       /\ ~ tasks[i].raised
       /\ calls[tasks[i].msg.src].deferred = Pending
       /\ EntryPresent(tasks[i].msg.src)

\* C20: hasInterface, hasMethod, getInterfaceNames and generateInjectionScript
\* leave the registry and the debug flag as they are, do not throw for an
\* absent name, and report absence as false or as an empty result.
C20_QueryStep ==
  \A i \in InterfaceNames, m \in MethodNames :
    Query(i, m) =>
      /\ interfaces' = interfaces
      /\ enableDebugLogging' = enableDebugLogging
      /\ managerPresent' = managerPresent
      /\ queried'.hasInterface \in BOOLEAN
      /\ queried'.hasMethod \in BOOLEAN
      /\ queried'.hasInterface <=> i \in DOMAIN interfaces
      /\ i \notin DOMAIN interfaces => ~ queried'.hasMethod
      /\ i \in DOMAIN interfaces =>
           (queried'.hasMethod <=> m \in DOMAIN interfaces[i])
      /\ queried'.names = DOMAIN interfaces
      /\ queried'.scriptEmpty <=> DOMAIN interfaces = {}

C20_QueriesArePure == [][C20_QueryStep]_vars

\* C20 happens: a non-empty registry was asked about an interface it does not
\* have and a method other interfaces do have, and answered false twice
C20_Witness ==
  /\ queried.made
  /\ managerPresent
  /\ queried.interfaceName = "constructor"
  /\ queried.methodName = "getToken"
  /\ \E n \in DOMAIN interfaces : "getToken" \in DOMAIN interfaces[n]
  /\ ~ queried.hasInterface
  /\ ~ queried.hasMethod
  /\ queried.names = DOMAIN interfaces

\* C21: every callId a stub call generates differs from every callId in the
\* pending-call table, so no stub call overwrites a pending entry and each
\* callId maps to at most one outstanding call at a time, also for calls
\* issued within the same instant.  (step) A stub call's callId is not the key
\* of an entry whose call is still pending, and the call leaves every such
\* entry in place.
C21_FreshStep ==
  StubCallStep =>
    \A k \in DOMAIN callbacks :
      calls[callbacks[k]].deferred = Pending =>
        /\ calls'[Len(calls')].callId # k
        /\ k \in DOMAIN callbacks'
        /\ callbacks'[k] = callbacks[k]

\* C21: (state) no two calls of the page that were sent and are still pending
\* carry the same callId.
C21_OneOutstandingPerId ==
  \A n \in DOMAIN calls : \A m \in DOMAIN calls :
    ( /\ n # m
      /\ calls[n].gen = envGen /\ calls[m].gen = envGen
      /\ calls[n].posted /\ calls[m].posted
      /\ calls[n].deferred = Pending /\ calls[m].deferred = Pending )
    => calls[n].callId # calls[m].callId

C21_CallIdsUnique == []C21_OneOutstandingPerId /\ [][C21_FreshStep]_vars

\* some handler is suspended
SomeSuspended == \E j \in DOMAIN tasks : tasks[j].status = "suspended"

\* C22: the host does not serialize calls.  (step) While a handler is
\* suspended, a call envelope that is delivered is dispatched in that step
\* (its handler is invoked when the registry has one) and the suspended
\* invocations stay as they are; and when a handler completes, its response
\* is injected in that step, whatever other handlers are still suspended and
\* whichever call was issued first.
C22_NotSerializedStep ==
  /\ ( /\ DeliveryStep
       /\ SomeSuspended
       /\ managerPresent
       /\ IsCallEnvelope(Head(toHost)) )
     => LET t == tasks'[Len(tasks')]
            msg == Head(toHost)
        IN  /\ t.dispatched
            /\ SubSeq(tasks', 1, Len(tasks)) = tasks
            /\ (hasMethod(interfaces, msg.interfaceName, msg.methodName) /\ msg.argsIterable)
                 => /\ t.invoked
                    /\ t.handler = interfaces[msg.interfaceName][msg.methodName]
            /\ ( /\ t.status = "done"
                 /\ t.response.type = "JS_INTERFACE_RESPONSE"
                 /\ ~ ResponseStringifyThrows(t.response) )
                 => toEnv' = Append(toEnv, ResponseScript(t.response, Len(tasks')))
  /\ \A i \in 1..(MaxCalls + MaxPosts) :
       CompletionStep(i) =>
         /\ \A j \in DOMAIN tasks : j # i => tasks'[j] = tasks[j]
         /\ ( /\ webViewRef
              /\ tasks'[i].response.type = "JS_INTERFACE_RESPONSE"
              /\ ~ ResponseStringifyThrows(tasks'[i].response) )
              => toEnv' = Append(toEnv, ResponseScript(tasks'[i].response, i))

C22_CallsNotSerialized == [][C22_NotSerializedStep]_vars

\* C22 happens: the first call's handler is still suspended and its promise
\* pending, while the second call, issued and delivered later, has been
\* answered and settled
C22_Witness ==
  /\ Len(tasks) = 2
  /\ tasks[1].msg.src = 1 /\ tasks[2].msg.src = 2
  /\ tasks[1].status = "suspended"
  /\ tasks[2].status = "done" /\ tasks[2].invoked
  /\ Executed(2)
  /\ calls[1].deferred = Pending
  /\ calls[2].deferred.state = "fulfilled"
  /\ EntryPresent(1)

\* C23: for a call issued through a generated stub the host answers "Method
\* ... not found" or "Interface ... not found" only if the registry was
\* reconfigured after the bootstrap that defined the stub was generated; with
\* an unchanged registry every stub call reaches a handler.  (step) When the
\* envelope of a stub call is dispatched while the registry is the one the
\* stub's bootstrap was generated from, a handler is invoked.
C23_StubReachesHandlerStep ==
  ( /\ DeliveryStep
    /\ Head(toHost).src # 0
    /\ managerPresent
    /\ interfaces = calls[Head(toHost).src].origin )
  => LET t == tasks'[Len(tasks')]
     IN  /\ t.dispatched
         /\ t.invoked
         /\ t.response.error # InterfaceNotFound(Head(toHost).interfaceName)
         /\ t.response.error # MethodNotFound(Head(toHost).methodName,
                                              Head(toHost).interfaceName)

C23_NotFoundOnlyWhenStale == [][C23_StubReachesHandlerStep]_vars

\* C24: reinjecting the bootstrap into the same page after a reconfiguration
\* merges the interface globals additively.  (step) When a page that has
\* run a bootstrap before runs one, the globals of interfaces the script does
\* not carry stay as they are, the global of every interface the script
\* carries has exactly the script's methods for it, and running the same
\* definitions once more would leave the same globals.
C24_ReinjectionStep ==
  (BootstrapStep /\ bootstraps >= 1) =>
    LET defs == Head(toEnv).defs
    IN  /\ \A g \in DOMAIN stubs :
             g \notin DOMAIN defs => (g \in DOMAIN stubs' /\ stubs'[g] = stubs[g])
        /\ \A n \in DOMAIN defs :
             n \in DOMAIN stubs' /\ stubs'[n] = defs[n]
        /\ DefineInterfaces(DefineInterfaces(stubs, defs), defs) = DefineInterfaces(stubs, defs)

C24_ReinjectionMergesGlobals == [][C24_ReinjectionStep]_vars

\* C25: each inbound call envelope causes at most one handler invocation, and
\* handleCall changes no dispatcher state.  (state) Every invocation of
\* enhancedOnMessage has called a handler at most once, and not at all when
\* the message was not dispatched or no handler was found.
C25_AtMostOneInvocation ==
  \A i \in DOMAIN tasks :
    /\ tasks[i].invocations <= 1
    /\ tasks[i].invocations = 1 <=> tasks[i].invoked
    /\ ~ tasks[i].dispatched => tasks[i].invocations = 0

\* C25: (step) a delivered message starts exactly one invocation of
\* enhancedOnMessage, a finished one never changes again, and a step that
\* dispatches a call or completes a handler leaves the manager, its registry
\* and its debug flag as they were, whatever the outcome.
C25_DispatchStep ==
  /\ DeliveryStep => SubSeq(tasks', 1, Len(tasks)) = tasks
  /\ \A i \in DOMAIN tasks :
       /\ tasks[i].status = "done" => tasks'[i] = tasks[i]
       /\ tasks'[i].msg = tasks[i].msg
       /\ tasks'[i].invocations = tasks[i].invocations
  /\ tasks' # tasks =>
       /\ interfaces' = interfaces
       /\ enableDebugLogging' = enableDebugLogging
       /\ managerPresent' = managerPresent

C25_DispatchIsStateless == []C25_AtMostOneInvocation /\ [][C25_DispatchStep]_vars

\* C25 happens: a call was dispatched to a handler that failed, with debug
\* logging on, and the registry is still the configured one
C25_Witness ==
  /\ managerPresent
  /\ enableDebugLogging
  /\ interfaces = configure(EmptyRegistry, ConfigDup).interfaces
  /\ \E i \in DOMAIN tasks :
       /\ tasks[i].dispatched
       /\ tasks[i].status = "done"
       /\ tasks[i].invocations = 1
       /\ ~ tasks[i].outcome.ok
       /\ tasks[i].response.success = FALSE

\* C26: in every response envelope with success=false the error field is
\* present and is a string, whatever kind of value the handler threw or
\* rejected with (an Error, a string, a number, an object, null, undefined):
\* the Error's message, or the value turned into a string; in every response
\* with success=true there is no error field.  Both for the envelope as
\* handleCall returns it and as it is written into the response snippet.
C26_ErrorIsString ==
  \A i \in DOMAIN tasks :
    LET r == tasks[i].response
        f == tasks[i].outcome.failure
    IN  r.type = "JS_INTERFACE_RESPONSE" =>
          /\ ~ r.success =>
               /\ r.hasError
               /\ r.error \in STRING
               /\ ResponseOnWire(r).hasError
               /\ ResponseOnWire(r).error = r.error
               /\ tasks[i].invoked =>
                    r.error = (IF f.isError THEN f.message ELSE f.str)
          /\ r.success =>
               /\ ~ r.hasError
               /\ ~ ResponseOnWire(r).hasError

\* C26 happens: a handler rejected with undefined and the response carries
\* the string "undefined" as its error
C26_Witness ==
  \E i \in DOMAIN tasks :
    /\ tasks[i].invoked
    /\ tasks[i].status = "done"
    /\ tasks[i].outcome.failure \in PrimitiveFailureValues
    /\ tasks[i].response.type = "JS_INTERFACE_RESPONSE"
    /\ tasks[i].response.success = FALSE
    /\ tasks[i].response.hasError
    /\ tasks[i].response.error = "undefined"

\* C27: a message the host recognized as a call envelope and handed to the
\* dispatcher is never also passed to the host's generic message handler,
\* whatever the handler returns and whether or not the response could be
\* sent back.  Stated for the invocations in which handleCall returned a
\* response.
C27_DispatchedNeverGeneric ==
  \A i \in DOMAIN tasks :
    (tasks[i].dispatched /\ tasks[i].status = "done" /\ ~ tasks[i].raised)
      => ~ tasks[i].generic

\* C28: every response envelope handleCall returns carries the callId of the
\* call envelope it answers and the type JS_INTERFACE_RESPONSE, in all four
\* outcomes: success, unknown interface, unknown method, handler failure.
\* Both as returned and as written into the response snippet.
C28_ResponseCarriesCallId ==
  \A i \in DOMAIN tasks :
    LET r == tasks[i].response
    IN  /\ r.type \in {"none", "JS_INTERFACE_RESPONSE"}
        /\ r.type = "JS_INTERFACE_RESPONSE" =>
             /\ tasks[i].dispatched
             /\ r.callId = tasks[i].msg.callId
             /\ ResponseOnWire(r).callId = tasks[i].msg.callId
             /\ ResponseOnWire(r).type = "JS_INTERFACE_RESPONSE"
        /\ (tasks[i].dispatched /\ tasks[i].status = "done" /\ ~ tasks[i].raised)
             => r.type = "JS_INTERFACE_RESPONSE"

\* C28 happens: a call under a generated callId was answered with success
\* and the response carries that callId
C28_Witness ==
  \E i \in DOMAIN tasks :
    /\ tasks[i].msg.callId = MakeCallId(0, "a")
    /\ tasks[i].invoked
    /\ tasks[i].status = "done"
    /\ tasks[i].outcome.ok
    /\ tasks[i].response.success
    /\ tasks[i].response.callId = "call_0_a"

\* the page has run a response to the envelope of call n
Answered(n) == \E i \in DOMAIN tasks : tasks[i].msg.src = n /\ Executed(i)

\* C29: a stub registers its pending entry before it sends the call envelope,
\* so at every moment each call envelope the current page has sent and that
\* has not been answered yet has a pending entry under its callId.
C29_SentHasEntry ==
  \A n \in DOMAIN calls :
    (calls[n].posted /\ calls[n].gen = envGen /\ webViewRef /\ ~ Answered(n))
      => calls[n].callId \in DOMAIN callbacks

====
